---- MODULE Spec2Model ----
(***************************************************************************)
(* Model of sample/Compare_Numpy_Cython_Numba.ipynb: the residual kernels  *)
(* of the discretised plug-flow reactor (model_pfr, model_pfr_np,          *)
(* model_pfr_cy, Pfr_Cython.cython_model, model_pfr_np_no_share), the      *)
(* parameter classes pfr / Pfr_Cython, and the perfplot sweeps over the    *)
(* run_* functions.                                                        *)
(*                                                                         *)
(* Numbers.  A float is modelled as a pair <<n, d>> with d >= 0:           *)
(*   d > 0  : the finite value n/d, in lowest terms;                       *)
(*   <<1,0>>, <<-1,0>> : +inf and -inf;   <<0,0>> : NaN.                   *)
(* The operations follow IEEE-754 for the special values (inf - inf, 0*inf *)
(* and inf/inf are NaN, NaN propagates) and are exact on finite values:    *)
(* rounding, overflow, underflow and the sign of zero are not modelled.    *)
(*                                                                         *)
(* Arrays are sequences; the code's 0-based index i is position i + 1.     *)
(***************************************************************************)
EXTENDS Integers, Sequences, FiniteSets, TLC

VARIABLES
    par,        \* the pfr parameter object (a record), or None
    pr_Cy,      \* the Pfr_Cython parameter object, or None
    exc,        \* the exception the last constructor call raised, or None
    y,          \* state vector C handed to the kernels
    yp,         \* derivative vector dC handed to the kernels
    res,        \* the solver's shared residual buffer (share_res=1)
    out,        \* what each kernel called so far returned (a function on them)
    pc,         \* position in the notebook / in the sweep
    sweep,      \* which perfplot.show call is running (1 or 2), 0 if none
    ni,         \* index into n_range of the sweep
    ki,         \* index into kernels of the sweep
    heap,       \* number of objects allocated so far (object ids 1..heap)
    opts_setup, \* what setups_all(N) returned for the current N, or None
    cells       \* per (kernel, N) of the sweep: the record of the cell

vars == <<par, pr_Cy, exc, y, yp, res, out, pc, sweep, ni, ki, heap,
          opts_setup, cells>>

\* Python's None
None == [None |-> TRUE]

\* No exception was raised.
NoExc == "none"

(***************************************************************************)
(* Bounds of the model.                                                    *)
(***************************************************************************)
MaxN == 3

(***************************************************************************)
(* Float arithmetic.                                                       *)
(***************************************************************************)
Abs(a) == IF a < 0 THEN -a ELSE a

Sign(a) == IF a < 0 THEN -1 ELSE IF a > 0 THEN 1 ELSE 0

Min(a, b) == IF a < b THEN a ELSE b

Max(a, b) == IF a > b THEN a ELSE b

RECURSIVE GCD(_, _)
GCD(a, b) == IF b = 0 THEN a ELSE GCD(b, a % b)

Norm(n, d) ==
    IF d = 0 THEN <<Sign(n), 0>>
    ELSE LET g == GCD(Abs(n), d) IN <<n \div g, d \div g>>

Flt(n) == <<n, 1>>

NaN == <<0, 0>>

PInf == <<1, 0>>

IsFinite(x) == x[2] > 0

IsNaN(x) == x = NaN

FNeg(x) == <<-x[1], x[2]>>

FAdd(x, z) ==
    IF x[2] = 0 /\ z[2] = 0
    THEN (IF x[1] = z[1] THEN x ELSE NaN)
    ELSE Norm(x[1] * z[2] + z[1] * x[2], x[2] * z[2])

FSub(x, z) == FAdd(x, FNeg(z))

FMul(x, z) == Norm(x[1] * z[1], x[2] * z[2])

\* x / z; a zero divisor gives the IEEE result (the Python float division
\* raises ZeroDivisionError instead: get_h guards it, and the kernels are
\* called with vz > 0, h > 0, D >= 0 only, where no divisor is zero).
FDiv(x, z) ==
    LET s == IF z[1] < 0 THEN -1 ELSE 1
    IN  Norm(s * x[1] * z[2], s * x[2] * z[1])

\* The comparison == of two floats: NaN equals nothing, not even itself.
FEq(x, z) == ~IsNaN(x) /\ ~IsNaN(z) /\ x = z

(***************************************************************************)
(* Arrays.                                                                 *)
(***************************************************************************)
Item(a, i) == a[i + 1]

SetItem(a, i, v) == [a EXCEPT ![i + 1] = v]

\* A slice bound k of an array of length n, as Python resolves it.
PyIdx(k, n) == IF k < 0 THEN Max(k + n, 0) ELSE Min(k, n)

\* a[start:stop]
PySlice(a, start, stop) ==
    SubSeq(a, PyIdx(start, Len(a)) + 1, PyIdx(stop, Len(a)))

\* a[start:]
PySliceFrom(a, start) == PySlice(a, start, Len(a))

\* a[start:stop] = v, for v of the slice's length
SetSlice(a, start, stop, v) ==
    LET lo == PyIdx(start, Len(a))
        hi == PyIdx(stop, Len(a))
    IN  [i \in 1..Len(a) |-> IF lo < i /\ i <= hi THEN v[i - lo] ELSE a[i]]

VAdd(u, v) == [i \in 1..Len(u) |-> FAdd(u[i], v[i])]

VSub(u, v) == [i \in 1..Len(u) |-> FSub(u[i], v[i])]

VScale(c, v) == [i \in 1..Len(v) |-> FMul(c, v[i])]

(***************************************************************************)
(* The parameter classes.                                                  *)
(***************************************************************************)
\* pfr.get_h; Python raises ZeroDivisionError when self.N = 0 (see pfr_new)
get_h(self) == FDiv(FSub(self.zf, self.z0), Flt(self.N))

\* pfr.__init__(self, N): the object after the constructor's assignments
pfr_init(N) ==
    LET self == [D |-> Flt(1), vz |-> Flt(1), k |-> Flt(1), Cf |-> Flt(1),
                 z0 |-> Flt(0), zf |-> Flt(1), N |-> N]
    IN  [f \in DOMAIN self \cup {"h"} |->
            IF f = "h" THEN get_h(self) ELSE self[f]]

\* Pfr_Cython.get_h (a cdef method without cdivision: it raises on N = 0 too)
Pfr_Cython_get_h(self) == FDiv(FSub(self.zf, self.z0), Flt(self.N))

\* Pfr_Cython.__init__(self, N)
Pfr_Cython_init(N) ==
    LET self == [N |-> N, D |-> Flt(1), vz |-> Flt(1), k |-> Flt(1),
                 Cf |-> Flt(1), z0 |-> Flt(0), zf |-> Flt(1)]
    IN  [f \in DOMAIN self \cup {"h"} |->
            IF f = "h" THEN Pfr_Cython_get_h(self) ELSE self[f]]

(***************************************************************************)
(* The residual kernels.  Each returns what the code returns: the pair     *)
(* (res, 0) as a record [res, status].                                     *)
(***************************************************************************)
\* The body of the loop "for i in range(1, N - 1)" of the element-wise
\* kernels, run from i to stop - 1 on the buffer R.
RECURSIVE ForRows(_, _, _, _)
ForRows(R, i, stop, cx) ==
    IF i >= stop THEN R
    ELSE LET Ci == cx.Ci
             tt1 == FMul(cx.aux2,
                         FAdd(FSub(Item(Ci, i + 1), FMul(Flt(2), Item(Ci, i))),
                              Item(Ci, i - 1)))
             tt2 == FAdd(FMul(FNeg(cx.aux3),
                              FSub(Item(Ci, i + 1), Item(Ci, i - 1))),
                         FMul(cx.k, Item(Ci, i)))
         IN  ForRows(SetItem(R, i, FSub(FAdd(tt1, tt2), Item(cx.dCi, i))),
                     i + 1, stop, cx)

\* Faulty first row: the diffusion term has Ci[0] where the code has
\* 2.0*Ci[0] (C11 must tell the two apart).
FirstRow_nofactor(Ci, dCi, C0, aux2, aux3, k) ==
    FSub(FAdd(FSub(FMul(aux2, FAdd(FSub(Item(Ci, 1), Item(Ci, 0)), C0)),
                   FMul(aux3, FSub(Item(Ci, 1), C0))),
              FMul(k, Item(Ci, 0))),
         Item(dCi, 0))

\* res[0] = aux2*(Ci[1] - 2.0*Ci[0] + C0) - aux3*(Ci[1] - C0) + k*Ci[0] - dCi[0]
FirstRow(Ci, dCi, C0, aux2, aux3, k) ==
    FSub(FAdd(FSub(FMul(aux2, FAdd(FSub(Item(Ci, 1),
                                        FMul(Flt(2), Item(Ci, 0))), C0)),
                   FMul(aux3, FSub(Item(Ci, 1), C0))),
              FMul(k, Item(Ci, 0))),
         Item(dCi, 0))

\* Faulty last row: the convection term reads Ci[N-1] where the code reads
\* Ci[N-2] (C1 must tell the two apart).
LastRow_slip(Ci, dCi, CNp1, N, aux2, aux3, k) ==
    FSub(FAdd(FSub(FMul(aux2, FAdd(FSub(CNp1, FMul(Flt(2), Item(Ci, N - 1))),
                                   Item(Ci, N - 2))),
                   FMul(aux3, FSub(CNp1, Item(Ci, N - 1)))),
              FMul(k, Item(Ci, N - 1))),
         Item(dCi, N - 1))

\* res[N-1] = aux2*(CNp1 - 2.0*Ci[N-1] + Ci[N-2]) - aux3*(CNp1 - Ci[N-2])
\*            + k*Ci[N-1] - dCi[N-1]
LastRow(Ci, dCi, CNp1, N, aux2, aux3, k) ==
    FSub(FAdd(FSub(FMul(aux2, FAdd(FSub(CNp1, FMul(Flt(2), Item(Ci, N - 1))),
                                   Item(Ci, N - 2))),
                   FMul(aux3, FSub(CNp1, Item(Ci, N - 2)))),
              FMul(k, Item(Ci, N - 1))),
         Item(dCi, N - 1))

\* Faulty inlet ghost: Ci[0] and Cf swapped (C10 must tell the two apart).
InletGhost_swapped(Ci0, Cf, D, vz, h) ==
    LET aux1 == FDiv(D, FMul(vz, h))
    IN  FMul(FDiv(Flt(1), FAdd(Flt(1), aux1)), FAdd(FMul(aux1, Cf), Ci0))

\* aux1 = D / (vz * h); C0 = 1.0 / (1.0 + aux1) * (aux1 * Ci[0] + Cf)
InletGhost(Ci0, Cf, D, vz, h) ==
    LET aux1 == FDiv(D, FMul(vz, h))
    IN  FMul(FDiv(Flt(1), FAdd(Flt(1), aux1)), FAdd(FMul(aux1, Ci0), Cf))

model_pfr(t, Y, YP, P, R) ==
    LET N == P.N
        D == P.D
        vz == P.vz
        k == P.k
        Cf == P.Cf
        h == P.h
        dCi == YP
        Ci == Y
        C0 == InletGhost(Item(Ci, 0), Cf, D, vz, h)
        CNp1 == Item(Ci, N - 1)
        aux2 == FDiv(D, FMul(h, h))
        aux3 == FDiv(vz, FMul(Flt(2), h))
        r0 == SetItem(R, 0, FirstRow(Ci, dCi, C0, aux2, aux3, k))
        r1 == ForRows(r0, 1, N - 1,
                      [Ci |-> Ci, dCi |-> dCi, aux2 |-> aux2, aux3 |-> aux3,
                       k |-> k])
        r2 == SetItem(r1, N - 1, LastRow(Ci, dCi, CNp1, N, aux2, aux3, k))
    IN  [res |-> r2, status |-> 0]

\* Faulty bulk-array kernel: tt2 = aux3 * (...) where the code has -aux3
\* (C2 must tell the two apart).
model_pfr_np_signslip(t, Y, YP, P, R) ==
    LET N == P.N
        D == P.D
        vz == P.vz
        k == P.k
        Cf == P.Cf
        h == P.h
        dCi == YP
        Ci == Y
        C0 == InletGhost(Item(Ci, 0), Cf, D, vz, h)
        CNp1 == Item(Ci, N - 1)
        aux2 == FDiv(D, FMul(h, h))
        aux3 == FDiv(vz, FMul(Flt(2), h))
        r0 == SetItem(R, 0, FirstRow(Ci, dCi, C0, aux2, aux3, k))
        tt1 == VScale(aux2,
                      VAdd(VSub(PySliceFrom(Ci, 2),
                                VScale(Flt(2), PySlice(Ci, 1, -1))),
                           PySlice(Ci, 0, -2)))
        tt2 == VAdd(VScale(aux3,
                           VSub(PySliceFrom(Ci, 2), PySlice(Ci, 0, -2))),
                    VScale(k, PySlice(Ci, 1, -1)))
        r1 == SetSlice(r0, 1, -1, VSub(VAdd(tt1, tt2), PySlice(dCi, 1, -1)))
        r2 == SetItem(r1, N - 1, LastRow(Ci, dCi, CNp1, N, aux2, aux3, k))
    IN  [res |-> r2, status |-> 0]

\* Faulty bulk-array kernel: the last row res[N - 1] is not written, so the
\* buffer keeps what it held there (C3 must tell the two apart).
model_pfr_np_partial(t, Y, YP, P, R) ==
    LET N == P.N
        D == P.D
        vz == P.vz
        k == P.k
        Cf == P.Cf
        h == P.h
        dCi == YP
        Ci == Y
        C0 == InletGhost(Item(Ci, 0), Cf, D, vz, h)
        CNp1 == Item(Ci, N - 1)
        aux2 == FDiv(D, FMul(h, h))
        aux3 == FDiv(vz, FMul(Flt(2), h))
        r0 == SetItem(R, 0, FirstRow(Ci, dCi, C0, aux2, aux3, k))
        tt1 == VScale(aux2,
                      VAdd(VSub(PySliceFrom(Ci, 2),
                                VScale(Flt(2), PySlice(Ci, 1, -1))),
                           PySlice(Ci, 0, -2)))
        tt2 == VAdd(VScale(FNeg(aux3),
                           VSub(PySliceFrom(Ci, 2), PySlice(Ci, 0, -2))),
                    VScale(k, PySlice(Ci, 1, -1)))
        r1 == SetSlice(r0, 1, -1, VSub(VAdd(tt1, tt2), PySlice(dCi, 1, -1)))
    IN  [res |-> r1, status |-> 0]

model_pfr_np(t, Y, YP, P, R) ==
    LET N == P.N
        D == P.D
        vz == P.vz
        k == P.k
        Cf == P.Cf
        h == P.h
        dCi == YP
        Ci == Y
        C0 == InletGhost(Item(Ci, 0), Cf, D, vz, h)
        CNp1 == Item(Ci, N - 1)
        aux2 == FDiv(D, FMul(h, h))
        aux3 == FDiv(vz, FMul(Flt(2), h))
        r0 == SetItem(R, 0, FirstRow(Ci, dCi, C0, aux2, aux3, k))
        tt1 == VScale(aux2,
                      VAdd(VSub(PySliceFrom(Ci, 2),
                                VScale(Flt(2), PySlice(Ci, 1, -1))),
                           PySlice(Ci, 0, -2)))
        tt2 == VAdd(VScale(FNeg(aux3),
                           VSub(PySliceFrom(Ci, 2), PySlice(Ci, 0, -2))),
                    VScale(k, PySlice(Ci, 1, -1)))
        r1 == SetSlice(r0, 1, -1, VSub(VAdd(tt1, tt2), PySlice(dCi, 1, -1)))
        r2 == SetItem(r1, N - 1, LastRow(Ci, dCi, CNp1, N, aux2, aux3, k))
    IN  [res |-> r2, status |-> 0]

model_pfr_cy(t, Y, YP, P, R) ==
    LET N == P.N
        D == P.D
        vz == P.vz
        k == P.k
        Cf == P.Cf
        h == P.h
        dCi == YP
        Ci == Y
        C0 == InletGhost(Item(Ci, 0), Cf, D, vz, h)
        CNp1 == Item(Ci, N - 1)
        aux2 == FDiv(D, FMul(h, h))
        aux3 == FDiv(vz, FMul(Flt(2), h))
        r0 == SetItem(R, 0, FirstRow(Ci, dCi, C0, aux2, aux3, k))
        r1 == ForRows(r0, 1, N - 1,
                      [Ci |-> Ci, dCi |-> dCi, aux2 |-> aux2, aux3 |-> aux3,
                       k |-> k])
        r2 == SetItem(r1, N - 1, LastRow(Ci, dCi, CNp1, N, aux2, aux3, k))
    IN  [res |-> r2, status |-> 0]

\* Pfr_Cython.cythonized_base_model_calculations: the buffer res after it
cythonized_base_model_calculations(R, Y, YP, N, D, vz, k, Cf, h) ==
    LET dCi == YP
        Ci == Y
        C0 == InletGhost(Item(Ci, 0), Cf, D, vz, h)
        CNp1 == Item(Ci, N - 1)
        aux2 == FDiv(D, FMul(h, h))
        aux3 == FDiv(vz, FMul(Flt(2), h))
        r0 == SetItem(R, 0, FirstRow(Ci, dCi, C0, aux2, aux3, k))
        r1 == ForRows(r0, 1, N - 1,
                      [Ci |-> Ci, dCi |-> dCi, aux2 |-> aux2, aux3 |-> aux3,
                       k |-> k])
    IN  SetItem(r1, N - 1, LastRow(Ci, dCi, CNp1, N, aux2, aux3, k))

\* Pfr_Cython.cython_model(self, t, y, yp, res)
cython_model(self, t, Y, YP, R) ==
    [res |-> cythonized_base_model_calculations(
                 R, Y, YP, self.N, self.D, self.vz, self.k, self.Cf, self.h),
     status |-> 0]

\* model_pfr_np_no_share(t, y, yp, par); E is what np.empty(y.size) returned
model_pfr_np_no_share(t, Y, YP, P, E) ==
    LET res0 == E
        N == P.N
        D == P.D
        vz == P.vz
        k == P.k
        Cf == P.Cf
        h == P.h
        dCi == YP
        Ci == Y
        C0 == InletGhost(Item(Ci, 0), Cf, D, vz, h)
        CNp1 == Item(Ci, N - 1)
        aux2 == FDiv(D, FMul(h, h))
        aux3 == FDiv(vz, FMul(Flt(2), h))
        r0 == SetItem(res0, 0, FirstRow(Ci, dCi, C0, aux2, aux3, k))
        tt1 == VScale(aux2,
                      VAdd(VSub(PySliceFrom(Ci, 2),
                                VScale(Flt(2), PySlice(Ci, 1, -1))),
                           PySlice(Ci, 0, -2)))
        tt2 == VAdd(VScale(FNeg(aux3),
                           VSub(PySliceFrom(Ci, 2), PySlice(Ci, 0, -2))),
                    VScale(k, PySlice(Ci, 1, -1)))
        r1 == SetSlice(r0, 1, -1, VSub(VAdd(tt1, tt2), PySlice(dCi, 1, -1)))
        r2 == SetItem(r1, N - 1, LastRow(Ci, dCi, CNp1, N, aux2, aux3, k))
    IN  [res |-> r2, status |-> 0]

(***************************************************************************)
(* Kernel evaluation: one shared input (y, yp, parameters) is handed to    *)
(* every kernel in the order of the notebook's cells.  The kernels called  *)
(* through dyn_solver (share_res=1) write the solver's buffer res in       *)
(* place; model_pfr_np_no_share allocates its own with np.empty.           *)
(***************************************************************************)
Kernels == {"model_pfr", "model_pfr_np", "model_pfr_cy", "cython_model",
            "model_pfr_np_no_share"}

\* Input values: entries of C (with a non-finite one), of dC, the parameter
\* values assigned to a pfr object, and what a buffer the kernel did not
\* fill yet may hold.
CVals == {Flt(0), Flt(1), Flt(-2), PInf}

\* The derivative vectors of length n: all zero, or dC[i] = i + 1.
dCInputs(n) == {[i \in 1..n |-> Flt(0)], [i \in 1..n |-> Flt(i)]}

DVals == {Flt(0), Flt(1)}

vzVals == {Flt(1), Flt(2)}

kVals == {Flt(0), Flt(1)}

CfVals == {Flt(1), Flt(-2), PInf}

StaleVals == {Flt(7), NaN}

\* t0 = np.array([5.0])
t0 == Flt(5)

\* pfr(N) with D, vz, k and Cf then assigned (h is left as constructed)
ParInputs ==
    {[pfr_init(N) EXCEPT !.D = d, !.vz = v, !.k = kk, !.Cf = cf] :
        N \in 2..MaxN, d \in DVals, v \in vzVals, kk \in kVals, cf \in CfVals}

\* What the solver's buffer of length n may hold when a kernel is called:
\* what the last call left in it, or anything the solver put there since.
Buffers(n) == {res} \cup {[i \in 1..n |-> g] : g \in StaleVals}

\* out once kernel v has returned r
Returned(v, r) ==
    [w \in DOMAIN out \cup {v} |-> IF w = v THEN r ELSE out[w]]

NoSweep ==
    /\ sweep = 0 /\ ni = 0 /\ ki = 0 /\ heap = 0
    /\ opts_setup = None /\ cells = None

Init ==
    /\ par \in ParInputs
    /\ pr_Cy = Pfr_Cython_init(par.N)
    /\ exc = NoExc
    /\ y \in [1..par.N -> CVals]
    /\ yp \in dCInputs(par.N)
    /\ res = [i \in 1..par.N |-> Flt(0)]
    /\ out = [v \in {} |-> None]
    /\ pc = "model_pfr"
    /\ NoSweep

\* dyn_solver(model_pfr, *base_args): the solver calls resfun(t, y, yp, par, res)
Call_model_pfr ==
    /\ pc = "model_pfr"
    /\ \E B \in Buffers(Len(y)) :
          LET r == model_pfr(t0, y, yp, par, B)
          IN  /\ out' = Returned("model_pfr", r)
              /\ res' = r.res
    /\ pc' = "model_pfr_np"
    /\ UNCHANGED <<par, pr_Cy, exc, y, yp, sweep, ni, ki, heap, opts_setup, cells>>

Call_model_pfr_np ==
    /\ pc = "model_pfr_np"
    /\ \E B \in Buffers(Len(y)) :
          LET r == model_pfr_np(t0, y, yp, par, B)
          IN  /\ out' = Returned("model_pfr_np", r)
              /\ res' = r.res
    /\ pc' = "model_pfr_cy"
    /\ UNCHANGED <<par, pr_Cy, exc, y, yp, sweep, ni, ki, heap, opts_setup, cells>>

Call_model_pfr_cy ==
    /\ pc = "model_pfr_cy"
    /\ \E B \in Buffers(Len(y)) :
          LET r == model_pfr_cy(t0, y, yp, par, B)
          IN  /\ out' = Returned("model_pfr_cy", r)
              /\ res' = r.res
    /\ pc' = "cython_model"
    /\ UNCHANGED <<par, pr_Cy, exc, y, yp, sweep, ni, ki, heap, opts_setup, cells>>

\* dyn_solver(pr_Cy.cython_model, *cy_args) with cy_args[3] = None: the
\* solver calls resfun(t, y, yp, res)
Call_cython_model ==
    /\ pc = "cython_model"
    /\ \E B \in Buffers(Len(y)) :
          LET r == cython_model(pr_Cy, t0, y, yp, B)
          IN  /\ out' = Returned("cython_model", r)
              /\ res' = r.res
    /\ pc' = "model_pfr_np_no_share"
    /\ UNCHANGED <<par, pr_Cy, exc, y, yp, sweep, ni, ki, heap, opts_setup, cells>>

\* dasslcy.solve(model_pfr_np_no_share, ...): the solver calls
\* resfun(t, y, yp, par); np.empty returns uninitialised memory
Call_model_pfr_np_no_share ==
    /\ pc = "model_pfr_np_no_share"
    /\ \E E \in Buffers(Len(y)) :
          out' = Returned("model_pfr_np_no_share",
                          model_pfr_np_no_share(t0, y, yp, par, E))
    /\ pc' = "done"
    /\ UNCHANGED <<par, pr_Cy, exc, y, yp, res, sweep, ni, ki, heap,
                   opts_setup, cells>>

Next ==
    \/ Call_model_pfr
    \/ Call_model_pfr_np
    \/ Call_model_pfr_cy
    \/ Call_cython_model
    \/ Call_model_pfr_np_no_share

Spec == Init /\ [][Next]_vars

(***************************************************************************)
(* Parameter objects: construction, and attribute assignment on a pfr      *)
(* object (a plain Python class: any attribute can be assigned; the cdef   *)
(* attributes of Pfr_Cython cannot be reached from Python).                *)
(***************************************************************************)
NoKernel ==
    /\ y = <<>> /\ yp = <<>> /\ res = <<>>
    /\ out = [v \in {} |-> None]

ParamsInit ==
    /\ par = None /\ pr_Cy = None /\ exc = NoExc
    /\ pc = "start"
    /\ NoKernel /\ NoSweep

\* The arguments N tried on the constructors.
NArgs == (-1)..MaxN

\* par = pfr(N): get_h divides by N, so N = 0 raises ZeroDivisionError and
\* no object is bound; every other N yields an object.
pfr_new(N) ==
    /\ IF N = 0
       THEN exc' = "ZeroDivisionError" /\ par' = par
       ELSE exc' = NoExc /\ par' = pfr_init(N)
    /\ pc' = "pfr"
    /\ UNCHANGED <<pr_Cy, y, yp, res, out, sweep, ni, ki, heap, opts_setup,
                   cells>>

\* pr_Cy = Pfr_Cython(N)
Pfr_Cython_new(N) ==
    /\ IF N = 0
       THEN exc' = "ZeroDivisionError" /\ pr_Cy' = pr_Cy
       ELSE exc' = NoExc /\ pr_Cy' = Pfr_Cython_init(N)
    /\ pc' = "Pfr_Cython"
    /\ UNCHANGED <<par, y, yp, res, out, sweep, ni, ki, heap, opts_setup,
                   cells>>

\* The values an attribute of a pfr object may be assigned.
AttrVals(f) ==
    IF f = "N" THEN 1..MaxN
    ELSE IF f = "vz" THEN {Flt(0), Flt(2)}
    ELSE {Flt(0), Flt(1), Flt(2)}

\* par.f = v: the class defines no property and no __setattr__, so the
\* assignment stores v and nothing else changes
pfr_setattr(f, v) ==
    /\ par # None
    /\ par' = [par EXCEPT ![f] = v]
    /\ exc' = NoExc
    /\ pc' = "setattr"
    /\ UNCHANGED <<pr_Cy, y, yp, res, out, sweep, ni, ki, heap, opts_setup,
                   cells>>

ParamsNext ==
    \/ \E N \in NArgs : pfr_new(N)
    \/ \E N \in NArgs : Pfr_Cython_new(N)
    \/ \E f \in {"N", "z0", "zf", "vz"} : \E v \in AttrVals(f) : pfr_setattr(f, v)

ParamsSpec == ParamsInit /\ [][ParamsNext]_vars

\* x < z for floats that are not NaN
FLess(x, z) == x # z /\ FSub(z, x)[1] > 0

\* h = (zf - z0) / N holds of the object o
hConsistent(o) == o.h = FDiv(FSub(o.zf, o.z0), Flt(o.N))

\* The object o is one the contract allows.
ValidParams(o) ==
    /\ o.N >= 2 /\ FLess(o.z0, o.zf) /\ o.vz # Flt(0)
    /\ hConsistent(o) /\ FLess(Flt(0), o.h)

\* C4: construction fails with InvalidParameter when N < 2, zf <= z0 or
\* vz == 0: a constructor call either raised InvalidParameter or produced an
\* object with N >= 2, zf > z0, vz # 0 and h = (zf - z0)/N > 0.
C4_InvalidRejected ==
    /\ pc = "pfr" =>
          IF exc = NoExc THEN ValidParams(par) ELSE exc = "InvalidParameter"
    /\ pc = "Pfr_Cython" =>
          IF exc = NoExc THEN ValidParams(pr_Cy) ELSE exc = "InvalidParameter"

\* C8: in every reachable state of a parameter object h = (zf - z0)/N, also
\* after N, z0 or zf was assigned on the object.
C8_hAlwaysConsistent ==
    par # None => hConsistent(par)

(***************************************************************************)
(* The sweeps: perfplot.show(setup=setups_all, kernels=kernels, n_range).  *)
(* For every N of n_range the setup is built once and handed to every      *)
(* kernel of the list in turn.  Objects are identified by their allocation *)
(* number; an argument list is the record of the objects it holds (par = 0 *)
(* stands for a slot holding None).                                        *)
(***************************************************************************)
\* solver_setup_base(N), allocating after hp objects: par, t0, y0, the list
solver_setup_base(N, hp) ==
    [N |-> N, par |-> hp + 1, t0 |-> hp + 2, y0 |-> hp + 3, list |-> hp + 4]

\* setups_all(N): (base_args, (pr_Cy, cy_args), numba_args)
setups_all(N, hp) ==
    LET base_args == solver_setup_base(N, hp)
        pr_Cy_ == hp + 5
        cy_args == [solver_setup_base(N, hp + 5) EXCEPT !.par = 0]
        numba_pfr == hp + 10
        numba_args == [solver_setup_base(N, hp + 10) EXCEPT !.par = numba_pfr]
    IN  <<base_args, <<pr_Cy_, cy_args>>, numba_args>>

\* The mutable objects reachable from an argument list.
ArgObjects(args) ==
    {args.list, args.t0, args.y0} \cup (IF args.par = 0 THEN {} ELSE {args.par})

\* The statuses the solver may report for one integration: 0 (converged) or
\* a nonzero failure status.
SolverStatuses == {0, -1}

\* The run functions.  st is the status of the solver call the function
\* makes; each function returns 0 and raises nothing.  reads: the objects
\* the call hands to the solver.
run_py(opts, st) ==
    [ret |-> 0, raised |-> FALSE, reads |-> ArgObjects(Item(opts, 0))]

\* Faulty run function: a solver failure is raised as an exception (C6 must
\* tell the two apart).
run_np_raising(opts, st) ==
    [ret |-> 0, raised |-> st # 0, reads |-> ArgObjects(Item(opts, 0))]

run_np(opts, st) ==
    [ret |-> 0, raised |-> FALSE, reads |-> ArgObjects(Item(opts, 0))]

run_cy_naive(opts, st) ==
    [ret |-> 0, raised |-> FALSE, reads |-> ArgObjects(Item(opts, 0))]

run_cy_typed(opts, st) ==
    [ret |-> 0, raised |-> FALSE,
     reads |-> {Item(Item(opts, 1), 0)} \cup ArgObjects(Item(Item(opts, 1), 1))]

run_numba(opts, st) ==
    [ret |-> 0, raised |-> FALSE, reads |-> ArgObjects(Item(opts, 2))]

run_np_no_share(opts, st) ==
    [ret |-> 0, raised |-> FALSE, reads |-> ArgObjects(Item(opts, 0))]

Call(f, opts, st) ==
    CASE f = "run_py" -> run_py(opts, st)
      [] f = "run_np" -> run_np(opts, st)
      [] f = "run_cy_naive" -> run_cy_naive(opts, st)
      [] f = "run_cy_typed" -> run_cy_typed(opts, st)
      [] f = "run_numba" -> run_numba(opts, st)
      [] f = "run_np_no_share" -> run_np_no_share(opts, st)

\* kernels = [run_np, run_cy_typed, run_numba]; kernels = [run_np, run_np_no_share]
kernels(sw) ==
    IF sw = 1 THEN <<"run_np", "run_cy_typed", "run_numba">>
    ELSE <<"run_np", "run_np_no_share">>

\* n_range=[10*k for k in range(1, 100+10, 100)];
\* n_range=[10*k for k in np.linspace(1, 10000, 5, dtype='int')]
n_range(sw) ==
    IF sw = 1 THEN <<10, 1010>>
    ELSE <<10, 25000, 50000, 75000, 100000>>

SweepInit ==
    /\ sweep \in {1, 2}
    /\ ni = 1 /\ ki = 1 /\ heap = 0
    /\ opts_setup = None
    /\ cells = [c \in {} |-> None]
    /\ pc = "setup"
    /\ par = None /\ pr_Cy = None /\ exc = NoExc
    /\ NoKernel

\* data = setup(n) for the next N of n_range
Setup ==
    /\ pc = "setup"
    /\ opts_setup' = setups_all(n_range(sweep)[ni], heap)
    /\ heap' = heap + 14
    /\ ki' = 1
    /\ pc' = "run"
    /\ UNCHANGED <<par, pr_Cy, exc, y, yp, res, out, sweep, ni, cells>>

\* The cell's record once the run returned r after a solver status st: a
\* nonzero return marks the cell failed, a zero return is a timing sample.
Measured(st, r) ==
    [solver |-> st, ret |-> r.ret, reads |-> r.reads,
     mark |-> IF r.ret = 0 THEN "timed" ELSE "failed",
     samples |-> IF r.ret = 0 THEN 1 ELSE 0]

\* The next kernel of the list is run on the setup and timed.  An exception
\* a run raises is caught nowhere: it ends the perfplot.show call.
Run ==
    /\ pc = "run"
    /\ \E st \in SolverStatuses :
          LET f == kernels(sweep)[ki]
              r == Call(f, opts_setup, st)
              c == <<f, n_range(sweep)[ni]>>
          IN  IF r.raised
              THEN /\ pc' = "aborted"
                   /\ exc' = "Exception"
                   /\ UNCHANGED <<cells, ki, ni>>
              ELSE /\ cells' = [d \in DOMAIN cells \cup {c} |->
                                   IF d = c THEN Measured(st, r) ELSE cells[d]]
                   /\ exc' = NoExc
                   /\ IF ki < Len(kernels(sweep))
                      THEN ki' = ki + 1 /\ ni' = ni /\ pc' = "run"
                      ELSE /\ ki' = 1
                           /\ ni' = ni + 1
                           /\ pc' = IF ni < Len(n_range(sweep))
                                    THEN "setup" ELSE "done"
    /\ UNCHANGED <<par, pr_Cy, y, yp, res, out, sweep, heap, opts_setup>>

SweepNext == Setup \/ Run

\* The notebook runs single-threaded: a sweep that can take a step takes it.
SweepSpec == SweepInit /\ [][SweepNext]_vars /\ WF_vars(SweepNext)

AllCells ==
    {<<kernels(sweep)[i], n_range(sweep)[j]>> :
        i \in 1..Len(kernels(sweep)), j \in 1..Len(n_range(sweep))}

SomeRunFailed == \E c \in DOMAIN cells : cells[c].solver # 0

SweepComplete ==
    /\ DOMAIN cells = AllCells
    /\ \A c \in AllCells : cells[c].mark \in {"timed", "failed"}

\* C5: when the solver of a run reported a nonzero status, the run returned
\* that status, the cell is marked failed and holds no timing sample.
C5_FailureRecorded ==
    \A c \in DOMAIN cells :
        cells[c].solver # 0 =>
            /\ cells[c].ret = cells[c].solver
            /\ cells[c].mark = "failed"
            /\ cells[c].samples = 0

C7_NoSharedState ==
    \A c \in DOMAIN cells, d \in DOMAIN cells :
        (c[2] = d[2] /\ c[1] # d[1]) => cells[c].reads \cap cells[d].reads = {}

(***************************************************************************)
(* Claims about the kernels (checked under Spec).                          *)
(***************************************************************************)
Called(v) == v \in DOMAIN out

AllFinite(a) == \A i \in 1..Len(a) : IsFinite(a[i])

\* The state extended by the two ghost nodes, indexed 0..N+1 as in the
\* discretised equations: C[0] is the inlet ghost, C[N+1] the outlet ghost.
GhostC(j) ==
    LET aux1 == FDiv(par.D, FMul(par.vz, par.h))
    IN  IF j = 0 THEN FDiv(FAdd(FMul(aux1, y[1]), par.Cf), FAdd(Flt(1), aux1))
        ELSE IF j = par.N + 1 THEN y[par.N]
        ELSE y[j]

\* Row i (1..N) of the discretised equations.
StencilRow(i) ==
    LET aux2 == FDiv(par.D, FMul(par.h, par.h))
        aux3 == FDiv(par.vz, FMul(Flt(2), par.h))
    IN  FSub(FAdd(FSub(FMul(aux2,
                            FAdd(FSub(GhostC(i + 1), FMul(Flt(2), GhostC(i))),
                                 GhostC(i - 1))),
                       FMul(aux3, FSub(GhostC(i + 1), GhostC(i - 1)))),
                  FMul(par.k, GhostC(i))),
             yp[i])

\* C1: for every N >= 2 (N = 2 included), every C, dC and parameters, the
\* residual model_pfr returns has, in every row i of 1..N, the value of the
\* stencil formula with C[0] the inlet ghost and C[N+1] the outlet ghost.
C1_ResidualFormula ==
    Called("model_pfr") =>
        /\ Len(out["model_pfr"].res) = par.N
        /\ \A i \in 1..par.N : out["model_pfr"].res[i] = StencilRow(i)

\* C1 witness: model_pfr has returned for N = 2 (two boundary rows, no
\* interior row) on a finite input whose two rows differ.
C1_Witness ==
    /\ Called("model_pfr")
    /\ par.N = 2
    /\ AllFinite(out["model_pfr"].res)
    /\ out["model_pfr"].res[1] # out["model_pfr"].res[2]

\* The parameters the typed kernel reads (its own object's) are those of par.
SharedParams ==
    \A f \in {"N", "D", "vz", "k", "Cf", "h"} : pr_Cy[f] = par[f]

Variants == {"model_pfr", "model_pfr_cy", "model_pfr_np", "cython_model"}

\* C2: on a shared input (C, dC, parameters) every kernel variant that has
\* been called returned the same residual vector, entry by entry, and the
\* same status.
C2_VariantsAgree ==
    \A a \in Variants, b \in Variants :
        (/\ Called(a) /\ Called(b)
         /\ ("cython_model" \in {a, b} => SharedParams))
        => /\ out[a].status = out[b].status
           /\ Len(out[a].res) = Len(out[b].res)
           /\ \A i \in 1..Len(out[a].res) : out[a].res[i] = out[b].res[i]

\* C2 witness: all four variants have returned on a shared input with
\* interior rows (N >= 3) and a finite residual that is not uniform.
C2_Witness ==
    /\ \A v \in Variants : Called(v)
    /\ SharedParams
    /\ par.N >= 3
    /\ AllFinite(out["model_pfr_np"].res)
    /\ out["model_pfr_np"].res[2] # out["model_pfr_np"].res[1]

\* C3: the shared-buffer kernel model_pfr_np and the isolated kernel
\* model_pfr_np_no_share return the same residual vector for the same
\* (t, C, dC, parameters), whatever the caller's buffer held before the call:
\* all N entries are overwritten.
C3_SharedEqualsIsolated ==
    (Called("model_pfr_np") /\ Called("model_pfr_np_no_share"))
        => /\ out["model_pfr_np"] = out["model_pfr_np_no_share"]
           /\ Len(out["model_pfr_np"].res) = par.N
           /\ \A B \in Buffers(par.N) :
                 model_pfr_np(t0, y, yp, par, B).res
                     = out["model_pfr_np_no_share"].res

\* C3 witness: both kernels have returned, with interior rows, and no entry
\* of the result is a value the buffers held before the calls.
C3_Witness ==
    /\ Called("model_pfr_np") /\ Called("model_pfr_np_no_share")
    /\ par.N >= 3
    /\ \A i \in 1..par.N : out["model_pfr_np"].res[i] \notin StaleVals

\* C9: a kernel returns status 0 exactly when the evaluation succeeded, and
\* a nonzero status when an input entry of C or dC is non-finite.
C9_StatusSignalsFailure ==
    \A v \in Kernels :
        Called(v) => (out[v].status = 0 <=> (AllFinite(y) /\ AllFinite(yp)))

\* C10 as stated: with D = 0 the inlet ghost equals Cf exactly for every
\* inlet-node value C1 and feed value Cf.
C10_InletGhostIsCf ==
    (Called("model_pfr") /\ par.D = Flt(0))
        => FEq(InletGhost(Item(y, 0), par.Cf, par.D, par.vz, par.h), par.Cf)

\* C10 amended: with D = 0, vz > 0, h > 0, the inlet ghost equals Cf exactly
\* for every finite inlet-node value C1 and every finite feed value Cf.
C10_InletGhostIsCfFinite ==
    (/\ Called("model_pfr") /\ par.D = Flt(0)
     /\ IsFinite(Item(y, 0)) /\ IsFinite(par.Cf))
        => FEq(InletGhost(Item(y, 0), par.Cf, par.D, par.vz, par.h), par.Cf)

\* C10 witness: the kernel has run with D = 0 on a finite inlet-node value
\* that differs from Cf.
C10_Witness ==
    /\ Called("model_pfr") /\ par.D = Flt(0)
    /\ IsFinite(Item(y, 0)) /\ Item(y, 0) # par.Cf
    /\ par.vz = Flt(2)

\* The input is a uniform state with no reaction: k = 0, every C[i] equal to
\* Cf, every dC[i] zero.
UniformNoReaction ==
    /\ par.k = Flt(0)
    /\ \A i \in 1..Len(y) : y[i] = par.Cf
    /\ \A i \in 1..Len(yp) : yp[i] = Flt(0)

\* The kernels that read the parameters of par.
ParKernels == {"model_pfr", "model_pfr_np", "model_pfr_cy",
               "model_pfr_np_no_share"}

====
